---- MODULE Spec2Model ----
(***************************************************************************)
(* Model of mobilenet.py: the MobileNet / FD-MobileNet constructor, its    *)
(* name-keyed weight initializer, the architecture factory get_mobilenet   *)
(* with its eight named variants, and the MyMobilenetV1 latent/end         *)
(* repartitioning with its two-mode forward pass.                          *)
(*                                                                         *)
(* Module names are modelled as sequences of one-character strings so that *)
(* the initializer's substring / equality tests are computed as Python     *)
(* computes them.  Tensors are modelled by their shapes (MobileNet) and by *)
(* per-sample rows that record the partitions they went through            *)
(* (MyMobilenetV1).                                                        *)
(***************************************************************************)
EXTENDS Integers, Sequences, FiniteSets, TLC

VARIABLES pc, args, channels, first_stage_stride, net, init_rule, trace,
          result, my, fwd

vars == <<pc, args, channels, first_stage_stride, net, init_rule, trace,
          result, my, fwd>>

-----------------------------------------------------------------------------
(* Bounds of the explored inputs.                                          *)

MaxScaleNum == 6
MaxBatch == 2
MaxInject == 2
SplitBelow == 2
MaxSplit == 30
MaxStages == 2
MaxUnits == 2

ScaleDens == {1, 2, 4, 64}
ChanSet == {8, 16}
InSizes == {14, 28, 128, 224}

-----------------------------------------------------------------------------
(* Strings as character sequences.                                         *)

s_features == <<"f","e","a","t","u","r","e","s">>
s_init_block == <<"i","n","i","t","_","b","l","o","c","k">>
s_stage == <<"s","t","a","g","e">>
s_unit == <<"u","n","i","t">>
s_dw_conv == <<"d","w","_","c","o","n","v">>
s_pw_conv == <<"p","w","_","c","o","n","v">>
s_conv == <<"c","o","n","v">>
s_bn == <<"b","n">>
s_activ == <<"a","c","t","i","v">>
s_final_pool == <<"f","i","n","a","l","_","p","o","o","l">>
s_output == <<"o","u","t","p","u","t">>
s_dot == <<".">>

DigitChar(d) == <<"0","1","2","3","4","5","6","7","8","9">>[d + 1]

RECURSIVE Format(_)
Format(n) == IF n < 10 THEN <<DigitChar(n)>>
             ELSE Format(n \div 10) \o <<DigitChar(n % 10)>>

RECURSIVE Join(_)
Join(path) == IF Len(path) = 0 THEN <<>>
              ELSE IF Len(path) = 1 THEN path[1]
              ELSE path[1] \o s_dot \o Join(Tail(path))

Contains(pat, s) ==
    \E i \in 0..(Len(s) - Len(pat)) : SubSeq(s, i + 1, i + Len(pat)) = pat

-----------------------------------------------------------------------------
(* Convolution blocks of the block builders and layers of the tensor       *)
(* library.  A block is a convolution (no bias), a normalization layer and *)
(* an activation, registered under the names conv, bn and activ.           *)

ConvBlock(in_ch, out_ch, kernel, stride, padding, groups, role) ==
    [kind |-> "ConvBlock", in_channels |-> in_ch, out_channels |-> out_ch,
     kernel |-> kernel, stride |-> stride, padding |-> padding,
     groups |-> groups, role |-> role]

conv3x3_block(in_ch, out_ch, stride) ==
    ConvBlock(in_ch, out_ch, 3, stride, 1, 1, "conv3x3")

dwconv3x3_block(in_ch, out_ch, stride) ==
    ConvBlock(in_ch, out_ch, 3, stride, 1, out_ch, "depthwise")

conv1x1_block(in_ch, out_ch) ==
    ConvBlock(in_ch, out_ch, 1, 1, 0, 1, "pointwise")

ConvBlockChildren(b) ==
    <<[name |-> s_conv,
       module |-> [kind |-> "Conv2d", in_channels |-> b.in_channels,
                   out_channels |-> b.out_channels, kernel |-> b.kernel,
                   groups |-> b.groups, role |-> b.role]],
      [name |-> s_bn,
       module |-> [kind |-> "BatchNorm2d", num_features |-> b.out_channels,
                   role |-> "norm"]],
      [name |-> s_activ, module |-> [kind |-> "ReLU", role |-> "activ"]]>>

AvgPool2d(kernel, stride) ==
    [kind |-> "AvgPool2d", kernel |-> kernel, stride |-> stride]

Linear(in_f, out_f, bias) ==
    [kind |-> "Linear", in_features |-> in_f, out_features |-> out_f,
     bias |-> bias, role |-> "linear"]

Sequential(items) == [kind |-> "Sequential", items |-> items]

-----------------------------------------------------------------------------
(* DwsConvBlock and MobileNet construction.                                *)

DwsConvBlock_PointwiseFromOut(in_ch, out_ch, stride) ==
    [kind |-> "DwsConvBlock",
     dw_conv |-> dwconv3x3_block(in_ch, in_ch, stride),
     pw_conv |-> conv1x1_block(out_ch, out_ch)]

DwsConvBlock(in_ch, out_ch, stride) ==
    [kind |-> "DwsConvBlock",
     dw_conv |-> dwconv3x3_block(in_ch, in_ch, stride),
     pw_conv |-> conv1x1_block(in_ch, out_ch)]

UnitStride_IgnoreFlag(i, j, fss) == IF (j = 0) /\ (i # 0) THEN 2 ELSE 1

UnitStride(i, j, fss) == IF (j = 0) /\ ((i # 0) \/ fss) THEN 2 ELSE 1

RECURSIVE StageUnits(_, _, _, _, _)
StageUnits(cps, i, j, in_ch, fss) ==
    IF j >= Len(cps) THEN <<>>
    ELSE <<[name |-> s_unit \o Format(j + 1),
            module |-> DwsConvBlock(in_ch, cps[j + 1], UnitStride(i, j, fss))]>>
         \o StageUnits(cps, i, j + 1, cps[j + 1], fss)

StageOut_KeepsInput(cps, in_ch) == in_ch

(* in_channels after the loop over one stage.                              *)
StageOut(cps, in_ch) == IF Len(cps) = 0 THEN in_ch ELSE cps[Len(cps)]

RECURSIVE BuildStages(_, _, _, _)
BuildStages(rest, i, in_ch, fss) ==
    IF i >= Len(rest) THEN <<>>
    ELSE <<[name |-> s_stage \o Format(i + 1),
            module |-> Sequential(StageUnits(rest[i + 1], i, 0, in_ch, fss))]>>
         \o BuildStages(rest, i + 1, StageOut(rest[i + 1], in_ch), fss)

RECURSIVE FinalChannels(_, _, _)
FinalChannels(rest, i, in_ch) ==
    IF i >= Len(rest) THEN in_ch
    ELSE FinalChannels(rest, i + 1, StageOut(rest[i + 1], in_ch))

NoNet == [kind |-> "none"]

(* channels[0][0] of an empty table or an empty first row: IndexError.     *)
TableIndexable(chs) == Len(chs) >= 1 /\ Len(chs[1]) >= 1

MobileNetInit(chs, fss, in_ch, in_size, num_classes) ==
    [kind |-> "MobileNet",
     in_size |-> in_size,
     num_classes |-> num_classes,
     features |-> Sequential(
         <<[name |-> s_init_block,
            module |-> conv3x3_block(in_ch, chs[1][1], 2)]>>
         \o BuildStages(Tail(chs), 0, chs[1][1], fss)
         \o <<[name |-> s_final_pool, module |-> AvgPool2d(7, 1)]>>),
     output |-> Linear(FinalChannels(Tail(chs), 0, chs[1][1]), num_classes, TRUE)]

-----------------------------------------------------------------------------
(* The module tree: children in registration order, and named_modules as   *)
(* the preorder traversal with dotted names.                               *)

Children(m) ==
    CASE m.kind = "MobileNet" ->
           <<[name |-> s_features, module |-> m.features],
             [name |-> s_output, module |-> m.output]>>
      [] m.kind = "Sequential" -> m.items
      [] m.kind = "DwsConvBlock" ->
           <<[name |-> s_dw_conv, module |-> m.dw_conv],
             [name |-> s_pw_conv, module |-> m.pw_conv]>>
      [] m.kind = "ConvBlock" -> ConvBlockChildren(m)
      [] OTHER -> <<>>

RECURSIVE named_modules(_, _)
RECURSIVE NamedChildren(_, _, _)
named_modules(m, path) ==
    <<[name |-> Join(path), module |-> m]>> \o NamedChildren(Children(m), 1, path)

NamedChildren(cs, n, path) ==
    IF n > Len(cs) THEN <<>>
    ELSE named_modules(cs[n].module, Append(path, cs[n].name))
         \o NamedChildren(cs, n + 1, path)

HasWeight(m) == m.kind \in {"Conv2d", "BatchNorm2d", "Linear"}

(* Number of elements of the parameter tensors a module holds itself.      *)
OwnParams(m) ==
    CASE m.kind = "Conv2d" ->
           m.out_channels * (m.in_channels \div m.groups) * m.kernel * m.kernel
      [] m.kind = "BatchNorm2d" -> 2 * m.num_features
      [] m.kind = "Linear" ->
           m.in_features * m.out_features + (IF m.bias THEN m.out_features ELSE 0)
      [] OTHER -> 0

-----------------------------------------------------------------------------
(* MobileNet._init_params: the rule applied to one named module.           *)

InitRule(name, m) ==
    IF Contains(s_dw_conv \o s_dot \o s_conv, name) THEN "kaiming_fan_in"
    ELSE IF name = s_init_block \o s_dot \o s_conv
            \/ Contains(s_pw_conv \o s_dot \o s_conv, name) THEN "kaiming_fan_out"
    ELSE IF Contains(s_bn, name) THEN "weight_1_bias_0"
    ELSE IF Contains(s_output, name) THEN "kaiming_fan_out_bias_0"
    ELSE "untouched"

_init_params(n) ==
    LET nm == named_modules(n, <<>>)
    IN  [x \in 1..Len(nm) |-> InitRule(nm[x].name, nm[x].module)]

(* A rule that fires on a module without weight fails on module.weight.    *)
InitFails(n) ==
    LET nm == named_modules(n, <<>>)
    IN  \E x \in 1..Len(nm) :
            /\ InitRule(nm[x].name, nm[x].module) # "untouched"
            /\ ~HasWeight(nm[x].module)

-----------------------------------------------------------------------------
(* Forward shapes.  A tensor is [ok, b, c, h, w]; a failed layer gives     *)
(* ok = FALSE, which every later layer passes on.                          *)

Tensor(b, c, h, w) == [ok |-> TRUE, b |-> b, c |-> c, h |-> h, w |-> w]

Failed(t) == [t EXCEPT !.ok = FALSE]

ConvOut(size, kernel, stride, padding) ==
    (size + 2 * padding - kernel) \div stride + 1

ConvBlockForward(m, t) ==
    IF ~t.ok THEN t
    ELSE IF t.c # m.in_channels
            \/ t.h + 2 * m.padding < m.kernel \/ t.w + 2 * m.padding < m.kernel
         THEN Failed(t)
    ELSE Tensor(t.b, m.out_channels,
                ConvOut(t.h, m.kernel, m.stride, m.padding),
                ConvOut(t.w, m.kernel, m.stride, m.padding))

AvgPoolForward(m, t) ==
    IF ~t.ok THEN t
    ELSE IF t.h < m.kernel \/ t.w < m.kernel THEN Failed(t)
    ELSE Tensor(t.b, t.c, ConvOut(t.h, m.kernel, m.stride, 0),
                ConvOut(t.w, m.kernel, m.stride, 0))

RECURSIVE ModuleForward(_, _)
RECURSIVE SequentialForward(_, _, _)
ModuleForward(m, t) ==
    CASE m.kind = "Sequential" -> SequentialForward(m.items, 1, t)
      [] m.kind = "DwsConvBlock" ->
           ConvBlockForward(m.pw_conv, ConvBlockForward(m.dw_conv, t))
      [] m.kind = "ConvBlock" -> ConvBlockForward(m, t)
      [] m.kind = "AvgPool2d" -> AvgPoolForward(m, t)
      [] OTHER -> t

SequentialForward(items, n, t) ==
    IF n > Len(items) THEN t
    ELSE SequentialForward(items, n + 1, ModuleForward(items[n].module, t))

(* x.view(x.size(0), -1)                                                   *)
Flatten(t) == [ok |-> t.ok, b |-> t.b, width |-> t.c * t.h * t.w]

LinearForward(m, f) ==
    IF f.ok /\ f.width = m.in_features
    THEN [ok |-> TRUE, shape |-> <<f.b, m.out_features>>]
    ELSE [ok |-> FALSE, shape |-> <<>>]

MobileNetForward(n, t) ==
    LinearForward(n.output, Flatten(ModuleForward(n.features, t)))

-----------------------------------------------------------------------------
(* The architecture factory.                                               *)

DefaultInChannels == 3
DefaultInSize == 224
DefaultNumClasses == 1000

NoneName == "<None>"

Supported(version) == version \in {"orig", "fd"}

VersionChannels(version) ==
    IF version = "orig"
    THEN <<<<32>>, <<64>>, <<128, 128>>, <<256, 256>>,
           <<512, 512, 512, 512, 512, 512>>, <<1024, 1024>>>>
    ELSE <<<<32>>, <<64>>, <<128, 128>>, <<256, 256>>,
           <<512, 512, 512, 512, 512, 1024>>>>

VersionStride(version) == version = "fd"

(* int(cij * width_scale) for width_scale = num / den, den a power of two, *)
(* so that the floating-point product is exact; int() truncates to zero.   *)
IntScale_Round(cij, num, den) == (2 * cij * num + den) \div (2 * den)

IntScale(cij, num, den) ==
    IF cij * num >= 0 THEN (cij * num) \div den
    ELSE 0 - ((0 - cij * num) \div den)

ScaleChannels(chs, num, den) ==
    IF num # den
    THEN [i \in 1..Len(chs) |->
            [j \in 1..Len(chs[i]) |-> IntScale(chs[i][j], num, den)]]
    ELSE chs

(* The callers' side of the contract: no channel count is scaled to zero.  *)
PositiveWidths(num, den) == num = den \/ 32 * num >= den

NameMissing_OnlyNone(model_name) == model_name = NoneName

NameMissing(model_name) == model_name = NoneName \/ model_name = ""

Variants ==
    {[fn |-> "mobilenet_w1", version |-> "orig", num |-> 1, den |-> 1],
     [fn |-> "mobilenet_w3d4", version |-> "orig", num |-> 3, den |-> 4],
     [fn |-> "mobilenet_wd2", version |-> "orig", num |-> 1, den |-> 2],
     [fn |-> "mobilenet_wd4", version |-> "orig", num |-> 1, den |-> 4],
     [fn |-> "fdmobilenet_w1", version |-> "fd", num |-> 1, den |-> 1],
     [fn |-> "fdmobilenet_w3d4", version |-> "fd", num |-> 3, den |-> 4],
     [fn |-> "fdmobilenet_wd2", version |-> "fd", num |-> 1, den |-> 2],
     [fn |-> "fdmobilenet_wd4", version |-> "fd", num |-> 1, den |-> 4]}

(* net.parameters(): the module's own parameters, then its children's.    *)
RECURSIVE CountParams(_)
RECURSIVE CountChildren(_, _)
CountParams(m) == OwnParams(m) + CountChildren(Children(m), 1)

CountChildren(cs, n) ==
    IF n > Len(cs) THEN 0
    ELSE CountParams(cs[n].module) + CountChildren(cs, n + 1)

_calc_width(n) == CountParams(n)

-----------------------------------------------------------------------------
(* MyMobilenetV1: flattening and partitioning.  A layer object is          *)
(* identified by its path in the base network.                             *)

RECURSIVE remove_sequential(_, _, _)
remove_sequential(cs, n, path) ==
    IF n > Len(cs) THEN <<>>
    ELSE (IF cs[n].module.kind = "Sequential"
          THEN remove_sequential(Children(cs[n].module), 1,
                                 Append(path, cs[n].name))
          ELSE <<[path |-> Append(path, cs[n].name), module |-> cs[n].module]>>)
         \o remove_sequential(cs, n + 1, path)

ExpandLayer_Unexpanded(layer) == <<layer>>

(* One iteration of remove_DwsConvBlock: what the layer contributes.       *)
ExpandLayer(layer) ==
    LET ch == Children(layer.module)
    IN  IF layer.module.kind = "DwsConvBlock"
        THEN [c \in 1..Len(ch) |->
                [path |-> Append(layer.path, ch[c].name),
                 module |-> ch[c].module]]
        ELSE <<layer>>

RECURSIVE remove_DwsConvBlock(_)
remove_DwsConvBlock(cur_layers) ==
    IF Len(cur_layers) = 0 THEN <<>>
    ELSE ExpandLayer(Head(cur_layers)) \o remove_DwsConvBlock(Tail(cur_layers))

(* model.features.final_pool = pool : the entry keeps its position.        *)
ReplaceFinalPool(n, pool) ==
    [n EXCEPT !.features.items =
        [x \in 1..Len(@) |->
            IF @[x].name = s_final_pool
            THEN [name |-> s_final_pool, module |-> pool] ELSE @[x]]]

(* model.output = linear                                                   *)
ReplaceOutput(n, linear) == [n EXCEPT !.output = linear]

(* The rules _init_params applied, seen on a network some of whose layers  *)
(* were replaced afterwards: a replacement was never visited by the pass.  *)
InitAfterReplace(base, model) ==
    LET before == named_modules(base, <<>>)
        after == named_modules(model, <<>>)
        rules == _init_params(base)
    IN  [x \in 1..Len(after) |->
            IF after[x].module = before[x].module THEN rules[x]
            ELSE "untouched"]

LatentPart_Strict(layers, k) ==
    SelectSeq([x \in 1..Len(layers) |-> [idx |-> x - 1, layer |-> layers[x]]],
              LAMBDA e : e.idx < k)

LatentPart(layers, k) ==
    SelectSeq([x \in 1..Len(layers) |-> [idx |-> x - 1, layer |-> layers[x]]],
              LAMBDA e : e.idx <= k)

EndPart(layers, k) ==
    SelectSeq([x \in 1..Len(layers) |-> [idx |-> x - 1, layer |-> layers[x]]],
              LAMBDA e : ~(e.idx <= k))

Layers(part) == [x \in 1..Len(part) |-> part[x].layer]

DropLast(seq) == SubSeq(seq, 1, Len(seq) - 1)

(* The order in which a module's forward runs its sub-blocks.              *)
RECURSIVE ExecOrder(_, _)
RECURSIVE ExecItems(_, _, _)
ExecOrder(m, path) ==
    CASE m.kind = "MobileNet" ->
           ExecOrder(m.features, Append(path, s_features))
           \o <<[path |-> Append(path, s_output), module |-> m.output]>>
      [] m.kind = "Sequential" -> ExecItems(m.items, 1, path)
      [] m.kind = "DwsConvBlock" ->
           <<[path |-> Append(path, s_dw_conv), module |-> m.dw_conv],
             [path |-> Append(path, s_pw_conv), module |-> m.pw_conv]>>
      [] OTHER -> <<[path |-> path, module |-> m]>>

ExecItems(items, n, path) ==
    IF n > Len(items) THEN <<>>
    ELSE ExecOrder(items[n].module, Append(path, items[n].name))
         \o ExecItems(items, n + 1, path)

-----------------------------------------------------------------------------
(* MyMobilenetV1.forward on batches of rows.  A row records where the      *)
(* sample came from, which parts of the network it has gone through, and   *)
(* whether the latent part ran with gradients enabled.                     *)

Batch(src, size) ==
    [i \in 1..size |-> [src |-> src, i |-> i, ops |-> <<>>, grad |-> TRUE]]

Through(tag, batch) ==
    [i \in 1..Len(batch) |-> [batch[i] EXCEPT !.ops = Append(@, tag)]]

NoGrad(batch) == [i \in 1..Len(batch) |-> [batch[i] EXCEPT !.grad = FALSE]]

Cat_InjectedFirst(a, b) == b \o a

(* torch.cat((a, b), 0)                                                    *)
Cat(a, b) == a \o b

NoInput == [given |-> FALSE, rows |-> <<>>]

MyForward(x, latent_input, return_lat_acts) ==
    LET orig_acts == IF latent_input.given
                     THEN NoGrad(Through("lat_features", x))
                     ELSE Through("lat_features", x)
        lat_acts == IF latent_input.given
                    THEN Cat(orig_acts, latent_input.rows)
                    ELSE orig_acts
        logits == Through("output",
                      Through("view", Through("end_features", lat_acts)))
    IN  IF return_lat_acts
        THEN [logits |-> logits, acts |-> <<orig_acts>>]
        ELSE [logits |-> logits, acts |-> <<>>]

-----------------------------------------------------------------------------
(* Inputs.                                                                 *)

Versions == {"orig", "fd", "ORIG", "v2"}
ModelNames == {NoneName, "", "mobilenet"}
Splits == (0 - SplitBelow)..MaxSplit
Rows == UNION {[1..n -> ChanSet] : n \in 0..MaxUnits}
Tables == UNION {[1..n -> Rows] : n \in 0..(1 + MaxStages)}

None == [kind |-> "none"]

Init ==
    /\ pc = "idle"
    /\ args = None
    /\ channels = <<>>
    /\ first_stage_stride = FALSE
    /\ net = NoNet
    /\ init_rule = <<>>
    /\ trace = <<>>
    /\ result = None
    /\ my = None
    /\ fwd = None

-----------------------------------------------------------------------------
(* get_mobilenet, statement by statement.                                  *)

CallGetMobilenet ==
    /\ pc = "idle"
    /\ \E version \in Versions, num \in 1..MaxScaleNum, den \in ScaleDens,
          model_name \in ModelNames, pretrained \in BOOLEAN :
          /\ PositiveWidths(num, den)
          /\ args' = [kind |-> "call", fn |-> "get_mobilenet", version |-> version,
                   num |-> num, den |-> den, model_name |-> model_name,
                   pretrained |-> pretrained]
    /\ pc' = "gm_version"
    /\ UNCHANGED <<channels, first_stage_stride, net, init_rule, trace,
                   result, my, fwd>>

CallVariant ==
    /\ pc = "idle"
    /\ \E v \in Variants, pretrained \in BOOLEAN :
          args' = [kind |-> "call", fn |-> v.fn, version |-> v.version,
                   num |-> v.num, den |-> v.den, model_name |-> v.fn,
                   pretrained |-> pretrained]
    /\ pc' = "gm_version"
    /\ UNCHANGED <<channels, first_stage_stride, net, init_rule, trace,
                   result, my, fwd>>

GM_Version ==
    /\ pc = "gm_version"
    /\ IF Supported(args.version)
       THEN /\ channels' = VersionChannels(args.version)
            /\ first_stage_stride' = VersionStride(args.version)
            /\ pc' = "gm_scale"
            /\ UNCHANGED result
       ELSE /\ result' = [kind |-> "ValueError", what |-> "version"]
            /\ pc' = "raised"
            /\ UNCHANGED <<channels, first_stage_stride>>
    /\ UNCHANGED <<args, net, init_rule, trace, my, fwd>>

GM_Scale ==
    /\ pc = "gm_scale"
    /\ channels' = ScaleChannels(channels, args.num, args.den)
    /\ pc' = "gm_build"
    /\ UNCHANGED <<args, first_stage_stride, net, init_rule, trace, result,
                   my, fwd>>

GM_Build ==
    /\ pc = "gm_build"
    /\ net' = MobileNetInit(channels, first_stage_stride, DefaultInChannels,
                            DefaultInSize, DefaultNumClasses)
    /\ init_rule' = _init_params(net')
    /\ trace' = trace \o <<"MobileNet.__init__", "_init_params">>
    /\ pc' = "gm_pretrained"
    /\ UNCHANGED <<args, channels, first_stage_stride, result, my, fwd>>

GM_Pretrained ==
    /\ pc = "gm_pretrained"
    /\ IF args.pretrained
       THEN IF NameMissing(args.model_name)
            THEN /\ result' = [kind |-> "ValueError", what |-> "model_name"]
                 /\ pc' = "raised"
            ELSE /\ pc' = "gm_download"
                 /\ UNCHANGED result
       ELSE /\ pc' = "gm_return"
            /\ UNCHANGED result
    /\ UNCHANGED <<args, channels, first_stage_stride, net, init_rule, trace,
                   my, fwd>>

GM_Download ==
    /\ pc = "gm_download"
    /\ trace' = Append(trace, "download_model")
    /\ pc' = "gm_return"
    /\ UNCHANGED <<args, channels, first_stage_stride, net, init_rule, result,
                   my, fwd>>

GM_Return ==
    /\ pc = "gm_return"
    /\ result' = [kind |-> "net"]
    /\ pc' = "returned"
    /\ UNCHANGED <<args, channels, first_stage_stride, net, init_rule, trace,
                   my, fwd>>

-----------------------------------------------------------------------------
(* MobileNet(channels, first_stage_stride) called directly, and forward.   *)

Construct ==
    /\ pc = "idle"
    /\ \E chs \in Tables, fss \in BOOLEAN :
          /\ args' = [kind |-> "call", fn |-> "MobileNet"]
          /\ channels' = chs
          /\ first_stage_stride' = fss
          /\ IF TableIndexable(chs) /\ ~InitFails(MobileNetInit(chs, fss,
                    DefaultInChannels, DefaultInSize, DefaultNumClasses))
             THEN /\ net' = MobileNetInit(chs, fss, DefaultInChannels,
                                          DefaultInSize, DefaultNumClasses)
                  /\ init_rule' = _init_params(net')
                  /\ trace' = trace \o <<"MobileNet.__init__", "_init_params">>
                  /\ result' = [kind |-> "net"]
                  /\ pc' = "returned"
             ELSE /\ result' = [kind |-> "IndexError", what |-> "channels"]
                  /\ pc' = "raised"
                  /\ UNCHANGED <<net, init_rule, trace>>
    /\ UNCHANGED <<my, fwd>>

Forward ==
    /\ pc = "returned"
    /\ \E b \in 1..MaxBatch, size \in InSizes :
          fwd' = [kind |-> "MobileNet.forward",
                  input |-> <<b, DefaultInChannels, size, size>>,
                  out |-> MobileNetForward(net,
                              Tensor(b, DefaultInChannels, size, size))]
    /\ pc' = "forwarded"
    /\ UNCHANGED <<args, channels, first_stage_stride, net, init_rule, trace,
                   result, my>>

-----------------------------------------------------------------------------
(* MyMobilenetV1(pretrained, latent_layer_num) and its forward.            *)

MyInit ==
    /\ pc = "idle"
    /\ \E pretrained \in BOOLEAN, latent_layer_num \in Splits :
          LET chs == ScaleChannels(VersionChannels("orig"), 1, 1)
              base == MobileNetInit(chs, VersionStride("orig"),
                          DefaultInChannels, DefaultInSize, DefaultNumClasses)
              model == ReplaceFinalPool(base, AvgPool2d(4, 4))
              all_layers == remove_DwsConvBlock(
                                remove_sequential(Children(model), 1, <<>>))
          IN  /\ args' = [kind |-> "call", fn |-> "MyMobilenetV1",
                          pretrained |-> pretrained,
                          latent_layer_num |-> latent_layer_num]
              /\ channels' = chs
              /\ first_stage_stride' = VersionStride("orig")
              /\ net' = model
              /\ init_rule' = InitAfterReplace(base, model)
              /\ trace' = trace \o <<"MobileNet.__init__", "_init_params">>
                          \o (IF pretrained THEN <<"download_model">> ELSE <<>>)
              /\ my' = [kind |-> "MyMobilenetV1",
                        all_layers |-> all_layers,
                        lat_features |->
                            Layers(LatentPart(DropLast(all_layers),
                                              latent_layer_num)),
                        end_features |->
                            Layers(EndPart(DropLast(all_layers),
                                           latent_layer_num)),
                        output |-> Linear(1024, 50, FALSE)]
    /\ result' = [kind |-> "MyMobilenetV1"]
    /\ pc' = "my_built"
    /\ UNCHANGED fwd

(* mobilenet_v1_core50(): mobilenet_w1(pretrained=True) with the pool and   *)
(* the classifier replaced.                                                *)
MobilenetV1Core50 ==
    /\ pc = "idle"
    /\ LET chs == ScaleChannels(VersionChannels("orig"), 1, 1)
           base == MobileNetInit(chs, VersionStride("orig"),
                       DefaultInChannels, DefaultInSize, DefaultNumClasses)
           model == ReplaceOutput(ReplaceFinalPool(base, AvgPool2d(4, 4)),
                                  Linear(1024, 50, FALSE))
       IN  /\ channels' = chs
           /\ first_stage_stride' = VersionStride("orig")
           /\ net' = model
           /\ init_rule' = InitAfterReplace(base, model)
    /\ args' = [kind |-> "call", fn |-> "mobilenet_v1_core50"]
    /\ trace' = trace \o <<"MobileNet.__init__", "_init_params",
                            "download_model">>
    /\ result' = [kind |-> "net"]
    /\ pc' = "returned"
    /\ UNCHANGED <<my, fwd>>

MyForwardCall ==
    /\ pc = "my_built"
    /\ \E bx \in 1..MaxBatch, given \in BOOLEAN, bl \in 0..MaxInject,
          return_lat_acts \in BOOLEAN :
          /\ given \/ bl = 0
          /\ LET x == Batch("x", bx)
                 latent_input == IF given
                                 THEN [given |-> TRUE, rows |-> Batch("L", bl)]
                                 ELSE NoInput
                 r == MyForward(x, latent_input, return_lat_acts)
             IN  fwd' = [kind |-> "MyMobilenetV1.forward", x |-> x,
                         latent_input |-> latent_input,
                         return_lat_acts |-> return_lat_acts,
                         logits |-> r.logits, acts |-> r.acts]
    /\ pc' = "my_forwarded"
    /\ UNCHANGED <<args, channels, first_stage_stride, net, init_rule, trace,
                   result, my>>

Next ==
    \/ CallGetMobilenet
    \/ CallVariant
    \/ GM_Version
    \/ GM_Scale
    \/ GM_Build
    \/ GM_Pretrained
    \/ GM_Download
    \/ GM_Return
    \/ Construct
    \/ Forward
    \/ MyInit
    \/ MobilenetV1Core50
    \/ MyForwardCall

Spec == Init /\ [][Next]_vars

-----------------------------------------------------------------------------
(* Properties.                                                             *)

Built == net.kind = "MobileNet"

VariantNames == {v.fn : v \in Variants}

ExpectedRule(role) ==
    CASE role = "depthwise" -> "kaiming_fan_in"
      [] role = "conv3x3" -> "kaiming_fan_out"
      [] role = "pointwise" -> "kaiming_fan_out"
      [] role = "norm" -> "weight_1_bias_0"
      [] role = "linear" -> "kaiming_fan_out_bias_0"
      [] OTHER -> "untouched"

(* C1: after construction every module that holds parameters has been     *)
(* initialized with the rule of its role (depthwise: fan-in; stem and      *)
(* pointwise: fan-out; normalization: weight 1, bias 0; output layer:      *)
(* fan-out and bias 0), and none is skipped by all the rules.  The         *)
(* network is the one MobileNet constructed, before any later replacement  *)
(* of its classifier.                                                      *)
C1_EveryParameterModuleInitialized ==
    (Built /\ args.fn # "mobilenet_v1_core50") =>
        LET nm == named_modules(net, <<>>)
        IN  \A x \in 1..Len(nm) :
                HasWeight(nm[x].module) =>
                    /\ init_rule[x] # "untouched"
                    /\ init_rule[x] = ExpectedRule(nm[x].module.role)

-----------------------------------------------------------------------------

StageItems == SubSeq(net.features.items, 2, Len(net.features.items) - 1)

(* C4: the stem has stride 2; unit j of stage i has stride 2 exactly when  *)
(* it is the first unit of its stage and (i is not 1 or first_stage_stride *)
(* is set), else stride 1; 'orig' gives stage 1 unit 1 stride 1, 'fd'      *)
(* gives it stride 2.                                                      *)
C4_StridePolicy ==
    (Built /\ args.fn # "MyMobilenetV1") =>
        /\ net.features.items[1].module.stride = 2
        /\ \A i \in 1..Len(StageItems) :
             \A j \in 1..Len(StageItems[i].module.items) :
                LET unit == StageItems[i].module.items[j].module
                IN  /\ unit.dw_conv.stride \in {1, 2}
                    /\ unit.dw_conv.stride = 2
                          <=> (j = 1 /\ (i # 1 \/ first_stage_stride))
        /\ (args.fn \in VariantNames \cup {"get_mobilenet"}) =>
              /\ first_stage_stride = (args.version = "fd")
              /\ StageItems[1].module.items[1].module.dw_conv.stride
                    = (IF args.version = "orig" THEN 1 ELSE 2)

C4_Witness ==
    /\ pc = "returned"
    /\ args.fn = "fdmobilenet_w1"
    /\ StageItems[1].module.items[1].module.dw_conv.stride = 2
    /\ StageItems[4].module.items[1].module.dw_conv.stride = 2
    /\ StageItems[4].module.items[2].module.dw_conv.stride = 1

-----------------------------------------------------------------------------

ReferenceCount(fn) ==
    CASE fn = "mobilenet_w1" -> 4231976
      [] fn = "mobilenet_w3d4" -> 2585560
      [] fn = "mobilenet_wd2" -> 1331592
      [] fn = "mobilenet_wd4" -> 470072
      [] fn = "fdmobilenet_w1" -> 2901288
      [] fn = "fdmobilenet_w3d4" -> 1833304
      [] fn = "fdmobilenet_wd2" -> 993928
      [] fn = "fdmobilenet_wd4" -> 383160

(* C5: the network returned by each of the 8 named variants with           *)
(* pretrained=False has the reference number of trainable parameters.      *)
C5_ParameterCounts ==
    (pc = "returned" /\ args.fn \in VariantNames /\ ~args.pretrained) =>
        _calc_width(net) = ReferenceCount(args.fn)

C5_Witness ==
    /\ pc = "returned"
    /\ args.fn = "fdmobilenet_wd4"
    /\ ~args.pretrained
    /\ _calc_width(net) = 383160

-----------------------------------------------------------------------------

OrigTable == <<<<32>>, <<64>>, <<128, 128>>, <<256, 256>>,
               <<512, 512, 512, 512, 512, 512>>, <<1024, 1024>>>>

FdTable == <<<<32>>, <<64>>, <<128, 128>>, <<256, 256>>,
             <<512, 512, 512, 512, 512, 1024>>>>

ExpectedTable(version, num, den) ==
    LET base == IF version = "orig" THEN OrigTable ELSE FdTable
    IN  IF num = den THEN base
        ELSE [i \in 1..Len(base) |->
                [j \in 1..Len(base[i]) |-> (base[i][j] * num) \div den]]

(* The channel table a built network realizes: the stem's output width     *)
(* and, stage by stage, the output width of every unit.                    *)
RealizedTable ==
    <<<<net.features.items[1].module.out_channels>>>>
    \o [i \in 1..Len(StageItems) |->
          [j \in 1..Len(StageItems[i].module.items) |->
              StageItems[i].module.items[j].module.pw_conv.out_channels]]

GmCall == args.kind = "call" /\ args.fn \in VariantNames \cup {"get_mobilenet"}

(* C6: for 'orig' and 'fd' the network is built from the version's table   *)
(* with every count replaced by floor(c * s) when s # 1.0, and with the    *)
(* version's first-stage-stride flag; any other tag raises the             *)
(* unsupported-version error and no network is constructed.                *)
C6_FactoryTable ==
    GmCall =>
        /\ (pc \in {"gm_pretrained", "gm_download", "gm_return", "returned",
                    "forwarded"}) =>
              /\ args.version \in {"orig", "fd"}
              /\ channels = ExpectedTable(args.version, args.num, args.den)
              /\ Built
              /\ RealizedTable = ExpectedTable(args.version, args.num, args.den)
              /\ first_stage_stride = (args.version = "fd")
        /\ (pc \notin {"idle", "gm_version"} /\ args.version \notin {"orig", "fd"}) =>
              /\ pc = "raised"
              /\ result = [kind |-> "ValueError", what |-> "version"]
              /\ net = NoNet
              /\ trace = <<>>

C6_Witness ==
    /\ pc = "returned"
    /\ args.fn = "get_mobilenet"
    /\ args.version = "fd"
    /\ args.num = 3 /\ args.den = 64
    /\ RealizedTable = <<<<1>>, <<3>>, <<6, 6>>, <<12, 12>>,
                         <<24, 24, 24, 24, 24, 48>>>>

-----------------------------------------------------------------------------

FeatureInput == Tensor(fwd.input[1], fwd.input[2], fwd.input[3], fwd.input[4])

BeforePool ==
    SequentialForward(DropLast(net.features.items), 1, FeatureInput)

AfterPool == ModuleForward(net.features, FeatureInput)

LastUnitChannels ==
    LET last == StageItems[Len(StageItems)].module.items
    IN  last[Len(last)].module.pw_conv.out_channels

(* C7: for each named variant and every batch size b, forward on           *)
(* (b, 3, 224, 224) returns shape (b, 1000): the pool receives 7x7 and     *)
(* gives 1x1, and the flattened width is the linear layer's in_features,   *)
(* the last unit's channel count.                                          *)
C7_ForwardShape ==
    (pc = "forwarded" /\ args.fn \in VariantNames
        /\ fwd.input[3] = 224 /\ fwd.input[4] = 224) =>
        /\ fwd.out.ok
        /\ fwd.out.shape = <<fwd.input[1], 1000>>
        /\ BeforePool.ok /\ BeforePool.h = 7 /\ BeforePool.w = 7
        /\ AfterPool.h = 1 /\ AfterPool.w = 1
        /\ Flatten(AfterPool).width = net.output.in_features
        /\ net.output.in_features = LastUnitChannels

C7_Witness ==
    /\ pc = "forwarded"
    /\ args.fn = "fdmobilenet_w3d4"
    /\ fwd.input = <<2, 3, 224, 224>>
    /\ fwd.out.ok
    /\ fwd.out.shape = <<2, 1000>>

-----------------------------------------------------------------------------

MyBuilt == my.kind = "MyMobilenetV1"

Partitions == my.lat_features \o my.end_features

IsPool(e) == e.module.kind = "AvgPool2d"

IsNotPool(e) == ~IsPool(e)

FeaturesOrder == ExecOrder(net.features, <<s_features>>)

(* C2 as stated: the entry dropped by all_layers[:-1] is the final pooling *)
(* layer, latent ++ end is the forward order of the features without that  *)
(* pooling layer, and neither partition holds the original classifier.     *)
C2_DroppedEntryIsPool ==
    MyBuilt =>
        /\ IsPool(my.all_layers[Len(my.all_layers)])
        /\ Partitions = SelectSeq(FeaturesOrder, IsNotPool)
        /\ \A x \in 1..Len(Partitions) : Partitions[x].module.kind # "Linear"

(* C2 amended: the entry dropped by all_layers[:-1] is the base network's  *)
(* original classifier; latent ++ end is the forward order of the features *)
(* (stem, then per stage and unit the depthwise and the pointwise          *)
(* sub-block) including the final pooling layer, which is its last entry;  *)
(* neither partition holds the original classifier.                        *)
C2_DroppedEntryIsClassifier ==
    MyBuilt =>
        /\ my.all_layers[Len(my.all_layers)]
              = [path |-> <<s_output>>, module |-> net.output]
        /\ Partitions = FeaturesOrder
        /\ IsPool(Partitions[Len(Partitions)])
        /\ Partitions[Len(Partitions)].module = AvgPool2d(4, 4)
        /\ \A x \in 1..Len(Partitions) : Partitions[x].module.kind # "Linear"
        /\ \A x \in 1..(Len(Partitions) - 1) :
              Partitions[x].module.kind = "ConvBlock"

C2_Witness ==
    /\ pc = "my_built"
    /\ args.latent_layer_num = 20
    /\ Len(my.lat_features) = 21
    /\ Len(my.end_features) = 7
    /\ IsPool(my.end_features[7])
    /\ my.lat_features[2].path
          = <<s_features, s_stage \o <<"1">>, s_unit \o <<"1">>, s_dw_conv>>

-----------------------------------------------------------------------------

TotalLayers == Len(my.all_layers)

(* C3 as stated: for every split index k the latent partition has k + 1    *)
(* layers and the end partition (T - 1) - (k + 1).                         *)
C3_LengthsForEveryIndex ==
    MyBuilt =>
        /\ Len(my.lat_features) = args.latent_layer_num + 1
        /\ Len(my.end_features)
              = (TotalLayers - 1) - (args.latent_layer_num + 1)

(* C3 amended: for a split index k with -1 <= k <= T - 2 the latent        *)
(* partition has k + 1 layers and the end partition (T - 1) - (k + 1);     *)
(* for k > T - 2 the latent partition has all T - 1 layers and the end     *)
(* partition is empty; for k < -1 the latent partition is empty and the    *)
(* end partition has all T - 1 layers.                                     *)
C3_LengthsClamped ==
    MyBuilt =>
        LET k == args.latent_layer_num
            T == TotalLayers
        IN  /\ T = 29
            /\ (0 - 1 <= k /\ k <= T - 2) =>
                  /\ Len(my.lat_features) = k + 1
                  /\ Len(my.end_features) = (T - 1) - (k + 1)
            /\ k > T - 2 =>
                  /\ Len(my.lat_features) = T - 1
                  /\ Len(my.end_features) = 0
            /\ k < 0 - 1 =>
                  /\ Len(my.lat_features) = 0
                  /\ Len(my.end_features) = T - 1

C3_Witness ==
    /\ pc = "my_built"
    /\ args.latent_layer_num = 5
    /\ TotalLayers = 29
    /\ Len(my.lat_features) = 6
    /\ Len(my.end_features) = 22

-----------------------------------------------------------------------------

(* The values of a batch, without the gradient bookkeeping.                *)
Values(batch) ==
    [i \in 1..Len(batch) |->
        [src |-> batch[i].src, i |-> batch[i].i, ops |-> batch[i].ops]]

ClaimedLogits(x, injected) ==
    Through("output", Through("view", Through("end_features",
        Through("lat_features", x) \o injected)))

(* C8: the logits are classifier(flatten(end(latent(x) ++ L))) with the    *)
(* original activations first (an absent latent_input being an empty L),   *)
(* so they have batch(x) + batch(L) rows; an empty L gives the logits of   *)
(* the no-injection path; the side output is latent(x) alone.              *)
C8_InjectedForward ==
    (pc = "my_forwarded") =>
        /\ Values(fwd.logits)
              = Values(ClaimedLogits(fwd.x, fwd.latent_input.rows))
        /\ Len(fwd.logits) = Len(fwd.x) + Len(fwd.latent_input.rows)
        /\ \A i \in 1..Len(fwd.x) :
              /\ fwd.logits[i].src = "x"
              /\ fwd.logits[i].ops
                    = <<"lat_features", "end_features", "view", "output">>
        /\ \A i \in 1..Len(fwd.latent_input.rows) :
              /\ fwd.logits[Len(fwd.x) + i].src = "L"
              /\ fwd.logits[Len(fwd.x) + i].ops
                    = <<"end_features", "view", "output">>
        /\ (fwd.latent_input.given /\ Len(fwd.latent_input.rows) = 0) =>
              Values(fwd.logits)
                 = Values(MyForward(fwd.x, NoInput, fwd.return_lat_acts).logits)
        /\ (fwd.return_lat_acts <=> Len(fwd.acts) = 1)
        /\ fwd.return_lat_acts =>
              /\ Values(fwd.acts[1]) = Values(Through("lat_features", fwd.x))
              /\ Len(fwd.acts[1]) = Len(fwd.x)

C8_Witness ==
    /\ pc = "my_forwarded"
    /\ fwd.latent_input.given
    /\ Len(fwd.x) = 2
    /\ Len(fwd.latent_input.rows) = 2
    /\ fwd.return_lat_acts
    /\ Len(fwd.logits) = 4
    /\ fwd.logits[3].src = "L"
    /\ Len(fwd.acts[1]) = 2

-----------------------------------------------------------------------------

RaisedModelName ==
    pc = "raised" /\ result = [kind |-> "ValueError", what |-> "model_name"]

(* C9 as stated: the missing-model-name error is raised before any other   *)
(* step of the call (construction, initialization, download), and no       *)
(* network is returned.                                                    *)
C9_RaisedBeforeConstruction ==
    RaisedModelName =>
        /\ trace = <<>>
        /\ net = NoNet
        /\ result.kind # "net"

(* C9 amended: a call with a supported version, pretrained requested and   *)
(* the model name missing fails with the configuration error after the     *)
(* network has been constructed and initialized, but before the            *)
(* pretrained-loading collaborator is invoked, and no network is returned. *)
C9_RaisedBeforeDownload ==
    /\ RaisedModelName =>
          /\ args.pretrained /\ NameMissing(args.model_name)
          /\ Supported(args.version)
          /\ trace = <<"MobileNet.__init__", "_init_params">>
          /\ Built
          /\ result.kind # "net"
    /\ (GmCall /\ args.pretrained /\ (args.model_name = NoneName \/ args.model_name = ""))
          => /\ pc \notin {"gm_download", "gm_return", "returned", "forwarded"}
             /\ \A x \in 1..Len(trace) : trace[x] # "download_model"

C9_Witness ==
    /\ RaisedModelName
    /\ args.version = "orig"
    /\ args.model_name = ""
    /\ trace = <<"MobileNet.__init__", "_init_params">>

-----------------------------------------------------------------------------

(* C10: for a channel table with fewer than 2 entries (one that still      *)
(* names the stem's channel count), construction and                       *)
(* forward on a 224x224 input complete without error, and the flattened    *)
(* pool output has the width the linear layer expects, the stem's channel  *)
(* count.                                                                  *)
C10_DegenerateForward ==
    (args.kind = "call" /\ args.fn = "MobileNet" /\ Len(channels) < 2
        /\ TableIndexable(channels)) =>
        /\ pc # "raised"
        /\ (pc = "forwarded" /\ fwd.input[3] = 224 /\ fwd.input[4] = 224) =>
              /\ fwd.out.ok
              /\ Flatten(AfterPool).width = net.output.in_features
              /\ net.output.in_features
                    = net.features.items[1].module.out_channels

====
